---- MODULE Spec2Model ----
(***************************************************************************)
(* justgrep: the retrieval-and-filter pipeline.                            *)
(*                                                                         *)
(*   main        (src/unnamed/part_000)  flags -> Filter, the channel loop *)
(*   searchLogs  (src/unnamed/part_000)  the backward paging loop          *)
(*   fetch, FetchForDate, NextLogFile, MakeURL  (src/justlog_api.go)       *)
(*   Filter.Filter, Filter.StreamFilter: package code that is not among    *)
(*   the source files; modelled from sections 3 and 4.3 of the spec.       *)
(*                                                                         *)
(* Strings are sequences of one-character strings, so that lower-casing,   *)
(* splitting and pattern matching are computed.  Times are calendar dates  *)
(* at 00:00:00.                                                            *)
(***************************************************************************)
EXTENDS Integers, Sequences, FiniteSets, TLC

VARIABLES
    args,          \* the parsed flags (arguments), fixed for the run
    pc,            \* position of the main goroutine (main / searchLogs)
    currentIndex,  \* index into channelsToSearch (1-based)
    nextDate,      \* searchLogs: nextDate
    pageDate,      \* the date the page in progress was requested for
    requested,     \* request targets of the current channel, in order (history)
    requests,      \* page requests of the whole run, failed ones included (history)
    canceled,      \* the channel's cancellation signal
    results,       \* searchLogs: var results []int, as the main goroutine sees it
    filtered,      \* the channel "filtered": "none", "open" or "closed"
    progress,      \* *ProgressState
    stderr,        \* progress / error / summary events written so far
    fpc,           \* position of the page's fetch goroutine
    fmsg,          \* the message fetch is sending on "download"
    lineNo,        \* lines the scanner has returned on this page
    stuck,         \* fetch goroutines of earlier pages blocked on a send for ever
    lingering,     \* fetch goroutines of earlier pages that still have to close the body
    cpc,           \* position of the page's StreamFilter goroutine
    cmsg,          \* the message StreamFilter holds
    cresults,      \* StreamFilter: the results array it is building
    lastCat,       \* category of the record classified last on this page (history)
    sinkCount,     \* lines printed to stdout so far
    smsg,          \* searchLogs: msg, the loop variable of "for msg := range filtered"
    lastSink,      \* page and body position of the line printed last on this page (history)
    pageNo,        \* pages started so far in the run (history)
    ctx,           \* searchLogs: ctx, cancel := context.WithCancel(...), numbered by creation
    pageCtx        \* the ctx handed to the fetcher and classifier of the page started last

vars == <<args, pc, currentIndex, nextDate, pageDate, requested, requests, canceled,
          results, filtered, progress, stderr, fpc, fmsg, lineNo, stuck, lingering,
          cpc, cmsg, cresults, lastCat, smsg, sinkCount, lastSink, pageNo, ctx, pageCtx>>

----------------------------------------------------------------------------
(* Bounds of the model *)

\* lines in one response body
MaxLines == 3
\* page requests of a run over an "any" archive before the model stops exploring it
MaxPages == 2
\* further page requests explored over a "daily" archive
DeepPages == 2
\* lines in one response body of a "long" archive
LongLines == 6
\* page requests of a run over a "long" archive before the model stops exploring it
LongPages == 1

----------------------------------------------------------------------------
(* Strings *)

UpperCase ==
    << "A", "B", "C", "D", "E", "F", "G", "H", "I", "J", "K", "L", "M",
       "N", "O", "P", "Q", "R", "S", "T", "U", "V", "W", "X", "Y", "Z" >>

LowerCase ==
    << "a", "b", "c", "d", "e", "f", "g", "h", "i", "j", "k", "l", "m",
       "n", "o", "p", "q", "r", "s", "t", "u", "v", "w", "x", "y", "z" >>

ToLowerChar(c) ==
    IF \E i \in 1..Len(UpperCase) : UpperCase[i] = c
    THEN LowerCase[CHOOSE i \in 1..Len(UpperCase) : UpperCase[i] = c]
    ELSE c

\* strings.ToLower
ToLower(s) == [i \in 1..Len(s) |-> ToLowerChar(s[i])]

\* regexp.MatchString for a pattern without metacharacters: the pattern occurs in s
MatchString(p, s) ==
    \E i \in 1..(Len(s) + 1) :
        /\ i + Len(p) - 1 <= Len(s)
        /\ SubSeq(s, i, i + Len(p) - 1) = p

RECURSIVE SplitFrom(_, _, _)
SplitFrom(s, i, cur) ==
    IF i > Len(s) THEN <<cur>>
    ELSE IF s[i] = "," THEN <<cur>> \o SplitFrom(s, i + 1, <<>>)
    ELSE SplitFrom(s, i + 1, Append(cur, s[i]))

\* strings.Split(s, ",")
Split(s) == SplitFrom(s, 1, <<>>)

----------------------------------------------------------------------------
(* Calendar dates: time.Time restricted to year, month, day *)

Date(y, m, d) == [y |-> y, m |-> m, d |-> d]

IsLeap(y) == (y % 4 = 0) /\ ((y % 100 # 0) \/ (y % 400 = 0))

DaysIn(y, m) ==
    CASE m = 2 -> IF IsLeap(y) THEN 29 ELSE 28
      [] m \in {4, 6, 9, 11} -> 30
      [] OTHER -> 31

\* time.Date normalises out-of-range months and days
RECURSIVE NormDate(_, _, _)
NormDate(y, m, d) ==
    IF m < 1 THEN NormDate(y - 1, m + 12, d)
    ELSE IF m > 12 THEN NormDate(y + 1, m - 12, d)
    ELSE IF d < 1 THEN
        LET py == IF m = 1 THEN y - 1 ELSE y
            pm == IF m = 1 THEN 12 ELSE m - 1
        IN  NormDate(py, pm, d + DaysIn(py, pm))
    ELSE IF d > DaysIn(y, m) THEN
        NormDate(IF m = 12 THEN y + 1 ELSE y, IF m = 12 THEN 1 ELSE m + 1, d - DaysIn(y, m))
    ELSE Date(y, m, d)

\* time.Time.AddDate
AddDate(t, years, months, days) == NormDate(t.y + years, t.m + months, t.d + days)

\* time.Time.Before
Before(a, b) ==
    \/ a.y < b.y
    \/ a.y = b.y /\ a.m < b.m
    \/ a.y = b.y /\ a.m = b.m /\ a.d < b.d

\* days from 0001-01-01 to the first day of year y
DaysBeforeYear(y) ==
    LET p == y - 1 IN 365 * p + (p \div 4) - (p \div 100) + (p \div 400)

RECURSIVE DaysBeforeMonth(_, _)
DaysBeforeMonth(y, m) == IF m <= 1 THEN 0 ELSE DaysBeforeMonth(y, m - 1) + DaysIn(y, m - 1)

\* the days from the start of the calendar to date t
DaysSinceEpoch(t) == DaysBeforeYear(t.y) + DaysBeforeMonth(t.y, t.m) + t.d

\* the whole days in the largest time.Duration: 2^63 - 1 nanoseconds are
\* 106751 days, 23 hours and 47 minutes
MaxDurationDays == 106751

\* time.Time.Sub, in whole days: the difference, or the largest (smallest) Duration
\* when the difference exceeds it
SubDays(a, b) ==
    LET d == DaysSinceEpoch(a) - DaysSinceEpoch(b)
    IN  IF d > MaxDurationDays THEN MaxDurationDays
        ELSE IF d < -MaxDurationDays THEN -MaxDurationDays
        ELSE d

----------------------------------------------------------------------------
(* justlog_api.go *)

IsUserAPI(a) == a.user # <<>> /\ ~a.userIsRegex

\* the api main builds for a channel
MakeAPI(a, channel) ==
    IF IsUserAPI(a)
    THEN [kind |-> "user", Channel |-> channel, User |-> a.user]
    ELSE [kind |-> "channel", Channel |-> channel, User |-> <<>>]

NextLogFile(api, currentDate) ==
    IF api.kind = "user"
    THEN AddDate(currentDate, 0, -1, 0)
    ELSE AddDate(currentDate, 0, 0, -1)

\* api.GetApproximateOffset(), in days: the nominal step of the progress estimate
GetApproximateOffset(api) == IF api.kind = "user" THEN 30 ELSE 1

\* the request target; day is 0 for the per-user endpoint, which has none
MakeURL(api, date) ==
    IF api.kind = "user"
    THEN [channel |-> api.Channel, user |-> api.User, y |-> date.y, m |-> date.m, d |-> 0]
    ELSE [channel |-> api.Channel, user |-> <<>>, y |-> date.y, m |-> date.m, d |-> date.d]

----------------------------------------------------------------------------
(* The filter main builds from the flags *)

DontMatch == "DontMatch"
MatchExact == "MatchExact"
MatchRegex == "MatchRegex"

ResultOk == "ResultOk"
ResultTypeMismatch == "ResultTypeMismatch"
ResultUserMismatch == "ResultUserMismatch"
ResultTextMismatch == "ResultTextMismatch"
ResultDateBeforeStart == "ResultDateBeforeStart"
ResultMaxCountReached == "ResultMaxCountReached"

\* the indices 0 .. ResultCount-1 of a results array
Categories == {ResultOk, ResultTypeMismatch, ResultUserMismatch, ResultTextMismatch,
               ResultDateBeforeStart, ResultMaxCountReached}

\* make([]int, justgrep.ResultCount)
ZeroResults == [c \in Categories |-> 0]

\* a *regexp.Regexp: nil, or a compiled pattern
NilRegex == [nil |-> TRUE, pat |-> <<>>]
Compile(p) == [nil |-> FALSE, pat |-> p]

\* main: matchMode, before the per-user endpoint override
MatchModeOf(a) ==
    IF a.userIsRegex THEN MatchRegex
    ELSE IF a.user # <<>> \/ a.notUser # <<>> THEN MatchExact
    ELSE DontMatch

\* a variant of the Filter literal that leaves HasMessageType at its zero value
BuildFilterNoTypes(a) ==
    [ StartDate         |-> a.startTime,
      EndDate           |-> a.endTime,
      HasMessageType    |-> FALSE,
      MessageTypes      |-> Split(a.messageTypesRaw),
      HasMessageRegex   |-> TRUE,
      MessageRegex      |-> Compile(a.messageRegex),
      UserMatchType     |-> IF a.user # <<>> /\ ~a.userIsRegex THEN DontMatch ELSE MatchModeOf(a),
      UserName          |-> ToLower(a.user),
      NegativeUserName  |-> ToLower(a.notUser),
      NegativeUserRegex |-> IF a.userIsRegex THEN Compile(a.notUser) ELSE NilRegex,
      UserRegex         |-> IF a.userIsRegex THEN Compile(a.user) ELSE NilRegex,
      Count             |-> a.maxResults ]

\* main: the justgrep.Filter literal and the override that follows it
BuildFilter(a) ==
    [ StartDate         |-> a.startTime,
      EndDate           |-> a.endTime,
      HasMessageType    |-> Len(a.messageTypesRaw) # 0,
      MessageTypes      |-> Split(a.messageTypesRaw),
      HasMessageRegex   |-> TRUE,
      MessageRegex      |-> Compile(a.messageRegex),
      UserMatchType     |-> IF a.user # <<>> /\ ~a.userIsRegex THEN DontMatch ELSE MatchModeOf(a),
      UserName          |-> ToLower(a.user),
      NegativeUserName  |-> ToLower(a.notUser),
      NegativeUserRegex |-> IF a.userIsRegex THEN Compile(a.notUser) ELSE NilRegex,
      UserRegex         |-> IF a.userIsRegex THEN Compile(a.user) ELSE NilRegex,
      Count             |-> a.maxResults ]

----------------------------------------------------------------------------
(* Messages and the Classifier (spec 3, 4.3) *)

\* a parsed archive line; page and line tell where it was read: the number of the
\* page in the run and the position in the response body
Message(ts, type, user, text, page, line) ==
    [nil |-> FALSE, Timestamp |-> ts, Type |-> type, User |-> user, Text |-> text,
     page |-> page, line |-> line]

\* the end marker fetch sends after the last line
NilMessage ==
    [nil |-> TRUE, Timestamp |-> Date(0, 1, 1), Type |-> <<>>, User |-> <<>>, Text |-> <<>>,
     page |-> 0, line |-> 0]

\* len(msg.Raw)
RawLen(msg) == Len(msg.Type) + Len(msg.User) + Len(msg.Text)

TypeAllowed(f, msg) ==
    ~f.HasMessageType \/ (\E i \in 1..Len(f.MessageTypes) : f.MessageTypes[i] = msg.Type)

\* the negative user match is configured and matches
NegativeUserMatches(f, msg) ==
    /\ f.NegativeUserName # <<>>
    /\ CASE f.UserMatchType = MatchExact -> ToLower(msg.User) = f.NegativeUserName
         [] f.UserMatchType = MatchRegex ->
                ~f.NegativeUserRegex.nil /\ MatchString(f.NegativeUserRegex.pat, msg.User)
         [] OTHER -> FALSE

\* the positive user match rejects the record
PositiveUserFails(f, msg) ==
    CASE f.UserMatchType = MatchExact -> ToLower(msg.User) # f.UserName
      [] f.UserMatchType = MatchRegex -> ~MatchString(f.UserRegex.pat, msg.User)
      [] OTHER -> FALSE

\* evaluate(record, config): the category of one record, in priority order
Filter(f, msg) ==
    IF Before(msg.Timestamp, f.StartDate) THEN ResultDateBeforeStart
    ELSE IF ~TypeAllowed(f, msg) THEN ResultTypeMismatch
    ELSE IF NegativeUserMatches(f, msg) \/ PositiveUserFails(f, msg) THEN ResultUserMismatch
    ELSE IF ~MatchString(f.MessageRegex.pat, msg.Text) THEN ResultTextMismatch
    ELSE ResultOk

\* the accepted counter the cutoff is compared with: the Accepted entry of the
\* array of category counts StreamFilter builds and returns
AcceptedCounter(res) == res[ResultOk]

\* the category StreamFilter resolves for a record it has received
Resolve(f, res, msg) ==
    IF f.Count # 0 /\ AcceptedCounter(res) >= f.Count
    THEN ResultMaxCountReached
    ELSE Filter(f, msg)

IsTerminal(cat) == cat \in {ResultDateBeforeStart, ResultMaxCountReached}

SumResults(r) ==
    r[ResultOk] + r[ResultTypeMismatch] + r[ResultUserMismatch] + r[ResultTextMismatch]
      + r[ResultDateBeforeStart] + r[ResultMaxCountReached]

----------------------------------------------------------------------------
(* Inputs of a run *)

Bo == <<"b", "o">>
BoUpper == <<"B", "O">>
Al == <<"a", "l">>
Hi == <<"h", "i">>
Yo == <<"y", "o">>
Privmsg == <<"P">>
Clearchat == <<"C">>

\* a timestamp older than every window start
Ancient == Date(2001, 1, 1)

Channels == <<"a", "b">>

\* the flags, and the archive the instance serves during the run: "any" (a body
\* holds up to MaxLines lines of any kind), "daily" (every body holds exactly one
\* line, which matches the pattern and is dated on the requested date) or "long" (a
\* body holds up to LongLines lines dated on the requested date, matching or not)
Arguments(user, notUser, userIsRegex, types, regex, max, w, json, archive) ==
    [ user |-> user, notUser |-> notUser, userIsRegex |-> userIsRegex,
      messageTypesRaw |-> types, messageRegex |-> regex, maxResults |-> max,
      startTime |-> w.start, endTime |-> w.end, channels |-> Channels,
      progressJson |-> json, archive |-> archive ]

JanWindow == [start |-> Date(2024, 1, 1), end |-> Date(2024, 1, 3)]
MarWindow == [start |-> Date(2024, 2, 15), end |-> Date(2024, 3, 31)]

\* the runs explored, all of them -r over an instance that lists the channels a and
\* b: -regex h with -max 1 or -max 2 over the "any" archive, with or without -max 1
\* over the daily archive, and without -max over the long archive; and -user bo (the
\* per-user endpoint) over the daily archive
RunArgs ==
    { Arguments(<<>>, <<>>, FALSE, <<>>, <<"h">>, max, JanWindow, TRUE, "any") :
        max \in {1, 2} }
    \cup
    { Arguments(<<>>, <<>>, FALSE, <<>>, <<"h">>, max, JanWindow, json, "daily") :
        max \in {0, 1}, json \in BOOLEAN }
    \cup
    { Arguments(Bo, <<>>, FALSE, <<>>, <<"h">>, 0, MarWindow, json, "daily") :
        json \in BOOLEAN }
    \cup
    { Arguments(<<>>, <<>>, FALSE, <<>>, <<"h">>, 0, JanWindow, TRUE, "long") }

\* the lines the response body of page number page, requested for date, may hold at
\* position line
LineSet(a, date, page, line) ==
    IF a.archive = "daily"
    THEN { Message(date, Privmsg, Bo, Hi, page, line) }
    ELSE IF a.archive = "long"
    THEN { Message(date, Privmsg, Bo, Hi, page, line),
           Message(date, Privmsg, Bo, Yo, page, line) }
    ELSE { Message(date, Privmsg, Bo, Hi, page, line),
           Message(date, Privmsg, Bo, Yo, page, line),
           Message(Ancient, Privmsg, Bo, Hi, page, line) }

\* after n lines the body may hold a further line / may end
BodyHasLine(a, n) ==
    IF a.archive = "daily" THEN n < 1
    ELSE IF a.archive = "long" THEN n < LongLines
    ELSE n < MaxLines
BodyMayEnd(a, n) == IF a.archive = "daily" THEN n >= 1 ELSE TRUE

\* page requests of a run before the model stops exploring it
PageCap(a) ==
    IF a.archive = "daily" THEN MaxPages + DeepPages
    ELSE IF a.archive = "long" THEN LongPages
    ELSE MaxPages

----------------------------------------------------------------------------
(* Events on the diagnostic stream *)

progressNextChannel == "nextChannel"
progressNextStep == "nextStep"
errorWhileFetching == "fetchError"
summaryFinished == "summaryFinished"

\* progressUpdate{Type, Found, Channel, ..., Progress}; the counters it carries are
\* not kept in the log
Event(type, channel, prog) == [type |-> type, channel |-> channel]

\* errorReport{Type, Error, Progress}: it names no channel
ErrorReport(prog) == [type |-> errorWhileFetching]

\* "Error while fetching logs: %s\n", the line written without -progress-json
ErrorLine == [text |-> "Error while fetching logs"]

\* summaryReport{Type, Results, Progress}: it names no channel
SummaryReport(prog) == [type |-> summaryFinished, results |-> prog.TotalResults]

\* json.NewEncoder(os.Stderr).Encode(progressUpdate{...}) under -progress-json
Report(log, type, channel, prog) ==
    IF args.progressJson THEN Append(log, Event(type, channel, prog)) ELSE log

----------------------------------------------------------------------------
(* State *)

Unassigned == [assigned |-> FALSE, val |-> ZeroResults]

Init ==
    /\ args \in RunArgs
    /\ pc = "main"
    /\ currentIndex = 1
    /\ nextDate = args.endTime
    /\ pageDate = args.endTime
    /\ requested = <<>>
    /\ requests = 0
    /\ canceled = FALSE
    /\ results = Unassigned
    /\ filtered = "none"
    /\ progress = [TotalResults |-> ZeroResults, CountLines |-> 0, CountBytes |-> 0]
    /\ stderr = <<>>
    /\ fpc = "idle"
    /\ fmsg = NilMessage
    /\ lineNo = 0
    /\ stuck = 0
    /\ lingering = 0
    /\ cpc = "idle"
    /\ cmsg = NilMessage
    /\ cresults = ZeroResults
    /\ lastCat = "none"
    /\ smsg = NilMessage
    /\ sinkCount = 0
    /\ lastSink = <<0, 0>>
    /\ pageNo = 0
    /\ ctx = 0
    /\ pageCtx = 0

Running == pc \notin {"panic", "done", "filter"}

CurrentAPI == MakeAPI(args, args.channels[currentIndex])

\* the fetch goroutine of the previous page, if it has not returned, is left behind:
\* before its end marker was taken it can only block on "download", which nobody
\* reads any more; after it, it still has to close the body
LeaveFetcher ==
    /\ stuck' = stuck + (IF fpc \in {"scan", "send", "check", "sendNil"} THEN 1 ELSE 0)
    /\ lingering' = lingering + (IF fpc = "close" THEN 1 ELSE 0)

----------------------------------------------------------------------------
(* main and searchLogs *)

\* a variant of the channel loop that makes no new context for the next channel
NextChannelSameCtx ==
    /\ pc = "main"
    /\ currentIndex <= Len(args.channels)
    /\ stderr' = Report(stderr, progressNextChannel, args.channels[currentIndex], progress)
    /\ nextDate' = args.endTime
    /\ requested' = <<>>
    /\ pc' = "loop"
    /\ UNCHANGED <<args, smsg, ctx, canceled, pageCtx, currentIndex, pageDate, requests, results,
                   filtered, progress, fpc, fmsg, lineNo, stuck, lingering, cpc, cmsg, cresults,
                   lastCat, sinkCount, lastSink, pageNo>>

\* main: the next iteration of the channel loop, up to the paging loop of searchLogs
NextChannel ==
    /\ pc = "main"
    /\ currentIndex <= Len(args.channels)
    /\ stderr' = Report(stderr, progressNextChannel, args.channels[currentIndex], progress)
    /\ nextDate' = args.endTime
    /\ ctx' = ctx + 1
    /\ canceled' = FALSE
    /\ requested' = <<>>
    /\ pc' = "loop"
    /\ UNCHANGED <<args, smsg, pageCtx, currentIndex, pageDate, requests, results, filtered, progress,
                   fpc, fmsg, lineNo, stuck, lingering, cpc, cmsg, cresults,
                   lastCat, sinkCount, lastSink, pageNo>>

\* searchLogs: the head of an iteration of the paging loop: the nextStep event
NextStep ==
    /\ pc = "loop"
    /\ requests < PageCap(args)
    /\ stderr' = Report(stderr, progressNextStep, args.channels[currentIndex], progress)
    /\ pc' = "fetch"
    /\ UNCHANGED <<args, smsg, ctx, pageCtx, currentIndex, nextDate, pageDate, requested, requests,
                   canceled, results, filtered, progress, fpc, fmsg, lineNo, stuck, lingering,
                   cpc, cmsg, cresults, lastCat, sinkCount, lastSink, pageNo>>

\* FetchForDate returns without an error: the request was answered, the fetch
\* goroutine of the page is started, nextDate is the next log file
FetchForDate ==
    /\ pc = "fetch"
    /\ requested' = Append(requested, MakeURL(CurrentAPI, nextDate))
    /\ pageDate' = nextDate
    /\ nextDate' = NextLogFile(CurrentAPI, nextDate)
    /\ requests' = requests + 1
    /\ pageNo' = pageNo + 1
    /\ LeaveFetcher
    /\ fpc' = "scan"
    /\ fmsg' = NilMessage
    /\ lineNo' = 0
    /\ lastSink' = <<pageNo + 1, 0>>
    /\ lastCat' = "none"
    /\ pageCtx' = ctx
    /\ pc' = "start"
    /\ UNCHANGED <<args, smsg, ctx, currentIndex, canceled, progress, stderr, results, filtered,
                   cpc, cmsg, cresults, sinkCount>>

\* searchLogs: "filtered" is made, results is nil, the StreamFilter goroutine is started
StartFilter ==
    /\ pc = "start"
    /\ filtered' = "open"
    /\ results' = Unassigned
    /\ cpc' = "recv"
    /\ cmsg' = NilMessage
    /\ cresults' = ZeroResults
    /\ pc' = "sink"
    /\ UNCHANGED <<args, smsg, ctx, pageCtx, currentIndex, nextDate, pageDate, requested, requests,
                   canceled, progress, stderr, fpc, fmsg, lineNo, stuck, lingering,
                   lastCat, sinkCount, lastSink, pageNo>>

\* a variant of the failing request after which the same channel is paged again
FetchErrorRetry ==
    /\ pc = "fetch"
    /\ requested' = Append(requested, MakeURL(CurrentAPI, nextDate))
    /\ requests' = requests + 1
    /\ pc' = "loop"
    /\ UNCHANGED <<args, smsg, ctx, pageCtx, currentIndex, nextDate, canceled, pageDate, results,
                   filtered, progress, stderr, fpc, fmsg, lineNo, stuck, lingering, cpc, cmsg,
                   cresults, lastCat, sinkCount, lastSink, pageNo>>

\* a variant of the failing request in which the fetch goroutine was started all the same
FetchErrorStarts ==
    /\ pc = "fetch"
    /\ requested' = Append(requested, MakeURL(CurrentAPI, nextDate))
    /\ requests' = requests + 1
    /\ nextDate' = Date(1, 1, 1)
    /\ pc' = "failed"
    /\ fpc' = "scan"
    /\ lineNo' = 0
    /\ UNCHANGED <<args, smsg, ctx, pageCtx, currentIndex, canceled, pageDate, results, filtered,
                   progress, stderr, fmsg, stuck, lingering, cpc, cmsg, cresults, lastCat,
                   sinkCount, lastSink, pageNo>>

\* FetchForDate returns an error: http.NewRequest or client.Do failed, no goroutine
\* was started, nextDate is the zero time
FetchError ==
    /\ pc = "fetch"
    /\ requested' = Append(requested, MakeURL(CurrentAPI, nextDate))
    /\ requests' = requests + 1
    /\ nextDate' = Date(1, 1, 1)
    /\ pc' = "failed"
    /\ UNCHANGED <<args, smsg, ctx, pageCtx, currentIndex, canceled, pageDate, results, filtered,
                   progress, stderr, fpc, fmsg, lineNo, stuck, lingering, cpc, cmsg, cresults,
                   lastCat, sinkCount, lastSink, pageNo>>

\* searchLogs: "if err != nil": the error is reported and the loop is left
ReportError ==
    /\ pc = "failed"
    /\ stderr' = Append(stderr, IF args.progressJson THEN ErrorReport(progress) ELSE ErrorLine)
    /\ pc' = "return"
    /\ UNCHANGED <<args, smsg, ctx, pageCtx, currentIndex, nextDate, pageDate, requested, requests,
                   canceled, results, filtered, progress, fpc, fmsg, lineNo, stuck, lingering,
                   cpc, cmsg, cresults, lastCat, sinkCount, lastSink, pageNo>>

\* searchLogs returns after a break: the deferred cancel() runs and the channel loop
\* of main moves on
ReturnSearchLogs ==
    /\ pc = "return"
    /\ canceled' = TRUE
    /\ currentIndex' = currentIndex + 1
    /\ pc' = "main"
    /\ UNCHANGED <<args, smsg, ctx, pageCtx, nextDate, pageDate, requested, requests,
                   results, filtered, progress, stderr, fpc, fmsg, lineNo, stuck, lingering,
                   cpc, cmsg, cresults, lastCat, sinkCount, lastSink, pageNo>>

\* searchLogs: "for msg := range filtered" finds the channel closed
SinkClosed ==
    /\ pc = "sink"
    /\ filtered = "closed"
    /\ pc' = "accum"
    /\ UNCHANGED <<args, smsg, ctx, pageCtx, currentIndex, nextDate, pageDate, requested, requests, canceled,
                   results, filtered, progress, stderr, fpc, fmsg, lineNo, stuck, lingering,
                   cpc, cmsg, cresults, lastCat, sinkCount, lastSink, pageNo>>

\* progress.TotalResults[result] += count, for the results array r
AddResults(total, r) == [c \in Categories |-> total[c] + r[c]]

\* searchLogs: "for result, count := range results"; results is read without
\* synchronisation with the goroutine that assigns it, and a nil slice has no elements
Accumulate ==
    /\ pc = "accum"
    /\ progress' = IF results.assigned
                   THEN [progress EXCEPT !.TotalResults = AddResults(@, results.val)]
                   ELSE progress
    /\ pc' = "test"
    /\ UNCHANGED <<args, smsg, ctx, pageCtx, currentIndex, nextDate, pageDate, requested, requests, canceled,
                   results, filtered, stderr, fpc, fmsg, lineNo, stuck, lingering,
                   cpc, cmsg, cresults, lastCat, sinkCount, lastSink, pageNo>>

\* a variant of the test under which no result ends the loop
StopsPagingNever(r) == FALSE

\* the page's results tell the paging loop to stop
StopsPaging(r) == r[ResultDateBeforeStart] # 0 \/ r[ResultMaxCountReached] # 0

\* searchLogs: the test that ends the loop; indexing a nil slice panics
TestResults ==
    /\ pc = "test"
    /\ IF ~results.assigned
       THEN pc' = "unwind"
       ELSE IF StopsPaging(results.val)
       THEN pc' = "return"
       ELSE pc' = "loop"
    /\ UNCHANGED <<args, smsg, ctx, currentIndex, canceled, pageCtx, nextDate, pageDate, requested, requests, results, filtered,
                   progress, stderr, fpc, fmsg, lineNo, stuck, lingering, cpc, cmsg, cresults, lastCat, sinkCount,
                   lastSink, pageNo>>

\* the panic unwinds searchLogs: the deferred cancel() runs, then the process dies
PanicUnwind ==
    /\ pc = "unwind"
    /\ canceled' = TRUE
    /\ pc' = "panic"
    /\ UNCHANGED <<args, smsg, ctx, pageCtx, currentIndex, nextDate, pageDate, requested, requests,
                   results, filtered, progress, stderr, fpc, fmsg, lineNo, stuck, lingering,
                   cpc, cmsg, cresults, lastCat, sinkCount, lastSink, pageNo>>

\* main: after the last channel, the summary; the process ends
Summary ==
    /\ pc = "main"
    /\ currentIndex > Len(args.channels)
    /\ stderr' = IF args.progressJson THEN Append(stderr, SummaryReport(progress)) ELSE stderr
    /\ pc' = "done"
    /\ UNCHANGED <<args, smsg, ctx, pageCtx, currentIndex, nextDate, pageDate, requested, requests, canceled,
                   results, filtered, progress, fpc, fmsg, lineNo, stuck, lingering,
                   cpc, cmsg, cresults, lastCat, sinkCount, lastSink, pageNo>>

----------------------------------------------------------------------------
(* fetch: the goroutine that reads the response body *)

\* a variant of the scanner that does not advance
ScanLineSame(n) == n

\* the position of the line scanner.Scan() returns after n lines were returned
ScanLine(n) == n + 1

\* scanner.Scan(): the next line, or the end of the body
FetchScan ==
    /\ Running
    /\ fpc = "scan"
    /\ \/ /\ BodyHasLine(args, lineNo)
          /\ \E m \in LineSet(args, pageDate, pageNo, ScanLine(lineNo)) : fmsg' = m
          /\ lineNo' = lineNo + 1
          /\ fpc' = "send"
       \/ /\ BodyMayEnd(args, lineNo)
          /\ fmsg' = NilMessage
          /\ fpc' = "sendNil"
          /\ UNCHANGED lineNo
    /\ UNCHANGED <<args, smsg, ctx, pageCtx, pc, currentIndex, nextDate, pageDate, requested, requests, canceled,
                   results, filtered, progress, stderr, stuck, lingering, cpc, cmsg, cresults, lastCat, sinkCount,
                   lastSink, pageNo>>

\* a variant of the handoff in which the send completes without a receiver
DownloadBuffered ==
    /\ Running
    /\ fpc \in {"send", "sendNil"}
    /\ fpc' = IF fpc = "send" THEN "check" ELSE "close"
    /\ UNCHANGED <<args, smsg, ctx, pageCtx, pc, currentIndex, nextDate, pageDate, requested, requests,
                   canceled, results, filtered, progress, stderr, fmsg, lineNo, stuck, lingering,
                   cpc, cmsg, cresults, lastCat, sinkCount, lastSink, pageNo>>

\* "output <- msg" / "output <- nil" meets "msg := <-input" of StreamFilter
\* (the channel is unbuffered)
Download ==
    /\ Running
    /\ fpc \in {"send", "sendNil"}
    /\ cpc = "recv"
    /\ cmsg' = fmsg
    /\ fpc' = IF fpc = "send" THEN "check" ELSE "close"
    /\ cpc' = IF fmsg.nil THEN "close" ELSE "classify"
    /\ UNCHANGED <<args, smsg, ctx, pageCtx, pc, currentIndex, nextDate, pageDate, requested, requests, canceled,
                   results, filtered, progress, stderr, fmsg, lineNo, stuck, lingering,
                   cresults, lastCat, sinkCount,
                   lastSink, pageNo>>

\* the cancellation signal of context number c: the deferred cancel() of searchLogs
\* has set the signal of every context but the one of the call in progress
Canceled(c) == IF c = ctx THEN canceled ELSE TRUE

\* a variant of the check that never breaks
FetchCheckIgnore ==
    /\ Running
    /\ fpc = "check"
    /\ fpc' = "scan"
    /\ UNCHANGED <<args, smsg, ctx, pageCtx, pc, currentIndex, nextDate, pageDate, requested, requests,
                   canceled, results, filtered, progress, stderr, fmsg, lineNo, stuck, lingering,
                   cpc, cmsg, cresults, lastCat, sinkCount, lastSink, pageNo>>

\* "if *cancel { break }"
FetchCheck ==
    /\ Running
    /\ fpc = "check"
    /\ fpc' = IF Canceled(pageCtx) THEN "sendNil" ELSE "scan"
    /\ fmsg' = IF Canceled(pageCtx) THEN NilMessage ELSE fmsg
    /\ UNCHANGED <<args, smsg, ctx, pageCtx, pc, currentIndex, nextDate, pageDate, requested, requests, canceled,
                   results, filtered, progress, stderr, lineNo, stuck, lingering,
                   cpc, cmsg, cresults, lastCat, sinkCount, lastSink, pageNo>>

\* "defer resp.Body.Close()" of the page's fetch goroutine
FetchClose ==
    /\ Running
    /\ fpc = "close"
    /\ fpc' = "done"
    /\ UNCHANGED <<args, smsg, ctx, pageCtx, pc, currentIndex, nextDate, pageDate, requested, requests, canceled,
                   results, filtered, progress, stderr, fmsg, lineNo, stuck, lingering,
                   cpc, cmsg, cresults, lastCat, sinkCount,
                   lastSink, pageNo>>

\* "defer resp.Body.Close()" of a fetch goroutine of an earlier page
LingerClose ==
    /\ Running
    /\ lingering > 0
    /\ lingering' = lingering - 1
    /\ UNCHANGED <<args, smsg, ctx, pageCtx, pc, currentIndex, nextDate, pageDate, requested, requests, canceled,
                   results, filtered, progress, stderr, fpc, fmsg, lineNo, stuck,
                   cpc, cmsg, cresults, lastCat, sinkCount,
                   lastSink, pageNo>>

----------------------------------------------------------------------------
(* StreamFilter: the Classifier goroutine (spec 4.3) *)

\* the step after a record of category cat was counted
AfterClassify(cat) ==
    IF cat = ResultOk THEN "emit"
    ELSE IF IsTerminal(cat) THEN "cancel"
    ELSE "recv"

\* results[result]++
CountResult(res, cat) == [res EXCEPT ![cat] = @ + 1]

\* one record is consumed: the byte and line counters and its category are counted
Classify ==
    /\ Running
    /\ cpc = "classify"
    /\ LET cat == Resolve(BuildFilter(args), cresults, cmsg)
       IN  /\ cresults' = CountResult(cresults, cat)
           /\ lastCat' = cat
           /\ cpc' = AfterClassify(cat)
    /\ progress' = [progress EXCEPT !.CountLines = @ + 1, !.CountBytes = @ + RawLen(cmsg)]
    /\ UNCHANGED <<args, smsg, ctx, pageCtx, pc, currentIndex, nextDate, pageDate, requested, requests, canceled,
                   results, filtered, stderr, fpc, fmsg, lineNo, stuck, lingering,
                   cmsg, sinkCount, lastSink, pageNo>>

\* "output <- msg" of StreamFilter meets "for msg := range filtered" of searchLogs
Emit ==
    /\ pc = "sink"
    /\ cpc = "emit"
    /\ filtered = "open"
    /\ smsg' = cmsg
    /\ pc' = "print"
    /\ cpc' = "recv"
    /\ UNCHANGED <<args, ctx, pageCtx, currentIndex, nextDate, pageDate, requested, requests,
                   canceled, results, filtered, progress, stderr, fpc, fmsg, lineNo, stuck,
                   lingering, cmsg, cresults, lastCat, sinkCount, lastSink, pageNo>>

\* fmt.Println(msg.Raw): the body of the sink loop
Println ==
    /\ pc = "print"
    /\ sinkCount' = sinkCount + 1
    /\ lastSink' = <<smsg.page, smsg.line>>
    /\ smsg' = NilMessage
    /\ pc' = "sink"
    /\ UNCHANGED <<args, ctx, pageCtx, currentIndex, nextDate, pageDate, requested, requests,
                   canceled, results, filtered, progress, stderr, fpc, fmsg, lineNo, stuck,
                   lingering, cpc, cmsg, cresults, lastCat, pageNo>>

\* a terminal category: cancel() is called and no further input is read
Cancel ==
    /\ Running
    /\ cpc = "cancel"
    /\ canceled' = TRUE
    /\ cpc' = "close"
    /\ UNCHANGED <<args, smsg, ctx, pageCtx, pc, currentIndex, nextDate, pageDate, requested, requests,
                   results, filtered, progress, stderr, fpc, fmsg, lineNo, stuck, lingering,
                   cmsg, cresults, lastCat, sinkCount,
                   lastSink, pageNo>>

\* close(output)
CloseFiltered ==
    /\ Running
    /\ cpc = "close"
    /\ filtered' = "closed"
    /\ cpc' = "return"
    /\ UNCHANGED <<args, smsg, ctx, pageCtx, pc, currentIndex, nextDate, pageDate, requested, requests, canceled,
                   results, progress, stderr, fpc, fmsg, lineNo, stuck, lingering,
                   cmsg, cresults, lastCat, sinkCount,
                   lastSink, pageNo>>

\* searchLogs: "results = filter.StreamFilter(...)" in the goroutine: the assignment
\* that follows the return of StreamFilter
AssignResults ==
    /\ Running
    /\ cpc = "return"
    /\ results' = [assigned |-> TRUE, val |-> cresults]
    /\ cpc' = "done"
    /\ UNCHANGED <<args, smsg, ctx, pageCtx, pc, currentIndex, nextDate, pageDate, requested, requests, canceled,
                   filtered, progress, stderr, fpc, fmsg, lineNo, stuck, lingering,
                   cmsg, cresults, lastCat, sinkCount,
                   lastSink, pageNo>>

----------------------------------------------------------------------------

Next ==
    \/ NextChannel
    \/ NextStep
    \/ FetchForDate
    \/ StartFilter
    \/ FetchError
    \/ ReportError
    \/ ReturnSearchLogs
    \/ SinkClosed
    \/ Accumulate
    \/ TestResults
    \/ PanicUnwind
    \/ Summary
    \/ FetchScan
    \/ Download
    \/ FetchCheck
    \/ FetchClose
    \/ LingerClose
    \/ Classify
    \/ Emit
    \/ Println
    \/ Cancel
    \/ CloseFiltered
    \/ AssignResults

Spec == Init /\ [][Next]_vars

----------------------------------------------------------------------------
(* The Classifier alone: one record against the filter main builds from the flags *)

FilterArgs ==
    { Arguments(user, notUser, userIsRegex, types, regex, 0, JanWindow, TRUE, "any") :
        user \in {<<>>, Bo, <<"o">>},
        notUser \in {<<>>, Bo, BoUpper, <<"l">>},
        userIsRegex \in BOOLEAN,
        types \in {<<>>, <<"P">>, <<"C", ",", "P">>},
        regex \in {<<>>, <<"h">>} }

FilterMessages ==
    { Message(ts, type, user, text, 1, 1) :
        ts \in {Ancient, Date(2024, 1, 1), Date(2024, 1, 2)},
        type \in {Privmsg, Clearchat, <<"U">>},
        user \in {Bo, BoUpper, Al},
        text \in {Hi, Yo} }

InitFilter ==
    /\ args \in FilterArgs
    /\ cmsg \in FilterMessages
    /\ pc = "filter"
    /\ currentIndex = 1
    /\ nextDate = args.endTime
    /\ pageDate = args.endTime
    /\ requested = <<>>
    /\ requests = 0
    /\ canceled = FALSE
    /\ results = Unassigned
    /\ filtered = "none"
    /\ progress = [TotalResults |-> ZeroResults, CountLines |-> 0, CountBytes |-> 0]
    /\ stderr = <<>>
    /\ fpc = "idle"
    /\ fmsg = NilMessage
    /\ lineNo = 0
    /\ stuck = 0
    /\ lingering = 0
    /\ cpc = "idle"
    /\ cresults = ZeroResults
    /\ lastCat = "none"
    /\ smsg = NilMessage
    /\ sinkCount = 0
    /\ lastSink = <<0, 0>>
    /\ pageNo = 0
    /\ ctx = 0
    /\ pageCtx = 0

\* result := f.Filter(msg)
FilterMessage ==
    /\ pc = "filter"
    /\ lastCat = "none"
    /\ lastCat' = Filter(BuildFilter(args), cmsg)
    /\ UNCHANGED <<args, smsg, ctx, pageCtx, pc, currentIndex, nextDate, pageDate, requested, requests, canceled,
                   results, filtered, progress, stderr, fpc, fmsg, lineNo, stuck, lingering,
                   cpc, cmsg, cresults, sinkCount, lastSink, pageNo>>

NextFilter == FilterMessage

SpecFilter == InitFilter /\ [][NextFilter]_vars

----------------------------------------------------------------------------
(* Quantities the properties are stated over *)

\* records classified ResultOk so far in the run: those printed, the one the sink
\* loop has received and not printed yet, and the one StreamFilter is about to hand
\* to the sink
AcceptedAll ==
    sinkCount + (IF pc = "print" THEN 1 ELSE 0) + (IF cpc = "emit" THEN 1 ELSE 0)

\* records the Classifier has examined so far in the run
Examined == progress.CountLines

\* a page is in progress: its request was answered and its results were not read yet
InPage == pc \in {"start", "sink", "print"}

\* the StreamFilter goroutine of the page in progress has been started
Filtering == pc \in {"sink", "print"}

\* the body position of the line of this page the sink loop received last
Handed == IF pc = "print" THEN smsg.line ELSE lastSink[2]

\* a page has been fetched and nothing of its body has been read yet
PageJustStarted == pc \in {"start", "sink"} /\ fpc = "scan" /\ lineNo = 0

\* the orchestrator is between pages, or the run is over
BetweenPages == pc \in {"loop", "fetch", "failed", "return", "main", "done"}

\* ceil((end - start) / step) for the api of the run
PageBound(a) ==
    LET step == GetApproximateOffset(MakeAPI(a, a.channels[1]))
        span == SubDays(a.endTime, a.startTime)
    IN  (span + step - 1) \div step

----------------------------------------------------------------------------
(* C1 *)

\* C1: with maxResults = N > 0 the number of records accepted and delivered to the
\* sink never exceeds N, and no page is fetched once N records have been accepted.
C1_CutoffStopsRun ==
    args.maxResults > 0 =>
        /\ sinkCount <= args.maxResults
        /\ ~(PageJustStarted /\ AcceptedAll >= args.maxResults)

----------------------------------------------------------------------------
(* C2 *)

\* C2: after every page and at the end of the run the per-category totals of
\* ProgressState add up to the number of records the Classifier examined.
C2_TotalsAddUp ==
    BetweenPages => SumResults(progress.TotalResults) = Examined

----------------------------------------------------------------------------
(* C3 *)

\* C3: absent cutoff (and fetch error: a page is in progress), the pages of a channel
\* are requested for strictly earlier and earlier dates and there are at most
\* ceil((end - start) / step) of them.
C3_PagingBounded ==
    (args.maxResults = 0 /\ InPage) =>
        /\ Len(requested) <= PageBound(args)
        /\ Before(nextDate, pageDate)

----------------------------------------------------------------------------
(* C4 *)

\* C4: every line printed is a line of the page in progress, read from its body, and
\* lies after the line printed before it on that page; lines are printed one at a
\* time and pages are numbered in the order they are visited, so the output is a
\* subsequence of the records in the order of the fetched pages.
C4_SinkOrder ==
    [][ sinkCount' # sinkCount =>
            /\ sinkCount' = sinkCount + 1
            /\ pageNo' = pageNo
            /\ lastSink'[1] = pageNo
            /\ lastSink[1] = pageNo
            /\ lastSink'[2] > lastSink[2]
            /\ lastSink'[2] <= lineNo ]_vars

\* two lines of the second page of a run have been printed, the second after a
\* line that was skipped or printed
C4_Witness == sinkCount >= 2 /\ lastSink = <<2, 2>>

----------------------------------------------------------------------------
(* C5 *)

\* the entry of the diagnostic stream reports a failed request
IsFetchError(e) == e = ErrorReport(progress) \/ e = ErrorLine

\* the step is a page request that failed
FailedRequest == requests' = requests + 1 /\ pageNo' = pageNo

\* the zero time.Time, which FetchForDate returns with an error
ZeroTime == Date(1, 1, 1)

\* C5: a failed page request prints and counts nothing and is reported next; the
\* report ends the paging loop, and the return from it moves the main loop to the
\* next channel; every request is made for the channel the main loop is at, which
\* never goes back, and none is made after a request of that channel failed;
\* nothing printed is taken back; a run that ends has visited every channel and,
\* under -progress-json, ends with the summary.
C5_ErrorEndsChannelOnly ==
    /\ [][ FailedRequest =>
             /\ pc = "fetch" /\ pc' = "failed"
             /\ nextDate' = ZeroTime
             /\ currentIndex' = currentIndex
             /\ sinkCount' = sinkCount
             /\ progress' = progress ]_vars
    /\ [][ (pc = "failed" /\ pc' # pc) =>
             /\ pc' = "return"
             /\ Len(stderr') = Len(stderr) + 1
             /\ IsFetchError(stderr'[Len(stderr')])
             /\ requests' = requests ]_vars
    /\ [][ (pc = "return" /\ pc' # pc) =>
             /\ pc' = "main"
             /\ currentIndex' = currentIndex + 1
             /\ requests' = requests ]_vars
    /\ [][ requests' # requests =>
             /\ nextDate # ZeroTime
             /\ requested'[Len(requested')].channel = args.channels[currentIndex] ]_vars
    /\ [][ currentIndex' >= currentIndex /\ sinkCount' >= sinkCount ]_vars
    /\ [](pc = "done" =>
             /\ currentIndex = Len(args.channels) + 1
             /\ args.progressJson =>
                   /\ stderr[Len(stderr)] = SummaryReport(progress)
                   /\ \A i \in 1..Len(args.channels) :
                         \E k \in 1..Len(stderr) :
                             stderr[k] = [type |-> progressNextChannel,
                                          channel |-> args.channels[i]])

\* lines were printed, then a request of channel a failed and was reported, channel
\* b was searched and printed a line, and the run ended with the summary
C5_Witness ==
    /\ pc = "done"
    /\ args.progressJson
    /\ sinkCount >= 2
    /\ lastSink = <<pageNo, 1>>
    /\ pageNo >= 2
    /\ \E i \in 1..Len(stderr) :
          /\ stderr[i] = [type |-> errorWhileFetching]
          /\ \E j \in (i + 1)..Len(stderr) :
                stderr[j] = [type |-> progressNextStep, channel |-> "b"]
          /\ \A j \in 1..i : stderr[j].type # progressNextStep \/ stderr[j].channel = "a"

----------------------------------------------------------------------------
(* C6 *)

\* the channel-wide search of the window 2024-01-01 .. 2024-01-03 without cutoff,
\* inside the paging loop of a channel (a failed request leaves the loop)
JanChannelSearch ==
    /\ ~IsUserAPI(args)
    /\ args.startTime = Date(2024, 1, 1)
    /\ args.endTime = Date(2024, 1, 3)
    /\ args.maxResults = 0
    /\ pc \in {"loop", "fetch", "start", "sink", "print"}

RequestedDay(k) == Date(requested[k].y, requested[k].m, requested[k].d)

\* C6 as stated: the first page is requested for Jan-2, the second for Jan-1, and
\* a page has yielded DateBeforeStart by the time two pages, or the page after
\* them, have been requested.
C6_TwoPagesJan2Jan1 ==
    JanChannelSearch =>
        /\ Len(requested) >= 1 => RequestedDay(1) = Date(2024, 1, 2)
        /\ Len(requested) >= 2 => RequestedDay(2) = Date(2024, 1, 1)
        /\ (Filtering /\ cresults[ResultDateBeforeStart] > 0) => Len(requested) \in {2, 3}

----------------------------------------------------------------------------
(* C7 *)

\* C7: in the per-user variant every page after the first of a channel is requested
\* for the calendar month immediately before the month of the page before it.
C7_OneMonthBack ==
    IsUserAPI(args) =>
        \A k \in 1..(Len(requested) - 1) :
            LET p == requested[k]
                q == requested[k + 1]
            IN  IF p.m = 1
                THEN q.y = p.y - 1 /\ q.m = 12
                ELSE q.y = p.y /\ q.m = p.m - 1

----------------------------------------------------------------------------
(* C8 *)

\* every record of the page in progress that has been classified matches the filter
AllMatchSoFar ==
    /\ cresults[ResultTypeMismatch] = 0
    /\ cresults[ResultUserMismatch] = 0
    /\ cresults[ResultTextMismatch] = 0
    /\ cresults[ResultDateBeforeStart] = 0
    /\ cresults[ResultMaxCountReached] > 0 => Filter(BuildFilter(args), cmsg) = ResultOk

\* the cutoff was reached on the page in progress, whose records all match, and
\* searchLogs has not gone past the test of the page's results
CutoffPage ==
    /\ args.maxResults > 0
    /\ pc \in {"sink", "print", "accum", "test"}
    /\ AllMatchSoFar
    /\ cresults[ResultMaxCountReached] > 0

\* the Classifier's part of C8: N records of the page were accepted and received by
\* the sink loop, record N+1 is the one that resolved to MaxCountReached, no other
\* did, and cancel() has been called before the Classifier closes its output
CutoffResolved ==
    /\ cresults[ResultOk] = args.maxResults
    /\ cmsg.line = args.maxResults + 1
    /\ cresults[ResultMaxCountReached] = 1
    /\ lastCat = ResultMaxCountReached
    /\ Handed = args.maxResults
    /\ cpc \in {"cancel", "close", "return", "done"}
    /\ cpc # "cancel" => canceled

\* searchLogs finds MaxCountReached in the results it tests
CutoffReported == results.assigned /\ results.val[ResultMaxCountReached] = 1

\* C8: with cutoff N > 0, on a page of matching records that holds N+1 of them,
\* exactly N records are accepted and emitted to the sink, record N+1 of the page
\* resolves to MaxCountReached and cancellation of the fetcher is triggered; when
\* searchLogs tests the results of the page, it finds MaxCountReached in them and
\* all N records have been printed.
C8_CutoffReported ==
    CutoffPage =>
        /\ CutoffResolved
        /\ pc = "test" => (CutoffReported /\ lastSink = <<pageNo, args.maxResults>>)

----------------------------------------------------------------------------
(* C9 *)

OnlyNotUser == args.user = <<>> /\ args.notUser # <<>>

\* the username satisfies the negative pattern: equal ignoring case, or matched by
\* the expression under -uregex
NegativePatternHolds ==
    IF args.userIsRegex
    THEN MatchString(args.notUser, cmsg.User)
    ELSE ToLower(cmsg.User) = ToLower(args.notUser)

\* C9: with only -notuser given, a record that is not excluded by date or type
\* resolves to UserMismatch exactly when its username satisfies the negative
\* pattern, and otherwise to TextMismatch or Ok as the text decides.
C9_OnlyNotUser ==
    (pc = "filter" /\ OnlyNotUser
        /\ lastCat \notin {"none", ResultDateBeforeStart, ResultTypeMismatch}) =>
        /\ NegativePatternHolds <=> lastCat = ResultUserMismatch
        /\ ~NegativePatternHolds =>
              lastCat = (IF MatchString(args.messageRegex, cmsg.Text)
                         THEN ResultOk ELSE ResultTextMismatch)

----------------------------------------------------------------------------
(* C10 *)

FailsDate == Before(cmsg.Timestamp, args.startTime)

FailsType ==
    /\ args.messageTypesRaw # <<>>
    /\ \A i \in 1..Len(Split(args.messageTypesRaw)) : Split(args.messageTypesRaw)[i] # cmsg.Type

\* the record fails the user match asked for on the command line: under -uregex
\* the username is not matched by the -user expression or is matched by the
\* -notuser expression; with -notuser alone the username is the excluded name,
\* ignoring case
FailsUser ==
    IF args.userIsRegex
    THEN \/ ~MatchString(args.user, cmsg.User)
         \/ args.notUser # <<>> /\ MatchString(args.notUser, cmsg.User)
    ELSE /\ args.user = <<>>
         /\ args.notUser # <<>>
         /\ ToLower(cmsg.User) = ToLower(args.notUser)

FailsText == ~MatchString(args.messageRegex, cmsg.Text)

----------------------------------------------------------------------------
(* C11 *)

\* the step starts a further page of the channel being searched
FurtherPage == pageNo' = pageNo + 1 /\ Len(requested) >= 1

\* C11: a further page of a channel is requested only after a page whose results
\* hold neither DateBeforeStart nor MaxCountReached, and it is the page for
\* NextLogFile of the date of the page before; when the test of a page finds one
\* of the two, and when a request fails (after the report), searchLogs returns,
\* and the return moves the main loop to the next channel; a search that returns
\* requests nothing more; the paging loop is entered from the main loop or from the
\* test only; the channel index never goes back, so a channel that was left is not
\* searched again.
C11_ChannelStateMachine ==
    [][ /\ FurtherPage =>
              /\ results.assigned
              /\ results.val = cresults
              /\ cresults[ResultDateBeforeStart] = 0
              /\ cresults[ResultMaxCountReached] = 0
              /\ requested'[Len(requested')] =
                     MakeURL(CurrentAPI, NextLogFile(CurrentAPI, pageDate))
        /\ (pc = "test" /\ pc' # "test" /\ results.assigned
              /\ (results.val[ResultDateBeforeStart] # 0
                    \/ results.val[ResultMaxCountReached] # 0)) =>
              pc' = "return"
        /\ FailedRequest => pc' = "failed"
        /\ (pc = "failed" /\ pc' # pc) => pc' = "return"
        /\ (pc = "return" /\ pc' # pc) =>
              /\ pc' = "main"
              /\ currentIndex' = currentIndex + 1
        /\ requests' # requests => pc = "fetch"
        /\ (pc' = "fetch" /\ pc # "fetch") => pc = "loop"
        /\ (pc' = "loop" /\ pc # "loop") =>
              (pc \in {"main", "test"} /\ currentIndex' <= Len(args.channels))
        /\ currentIndex' >= currentIndex ]_vars

\* channel a was left on DateBeforeStart; the first page of channel b is in progress
C11_Witness ==
    /\ currentIndex = 2
    /\ pc = "sink"
    /\ Len(requested) = 1
    /\ pageNo = 2
    /\ Len(stderr) > 0
    /\ \A i \in 1..Len(stderr) : ~IsFetchError(stderr[i])
    /\ progress.TotalResults[ResultDateBeforeStart] = 1

----------------------------------------------------------------------------
(* C12 *)

\* the fetch goroutine of the page started last takes a step
FetcherStep == fpc' # fpc /\ pageNo' = pageNo

\* C12: once the signal of a page is set, its fetcher reads at most one line beyond
\* the record that made the classifier set it, and that line stays in its send; a
\* fetcher that reaches its check with the signal set reads no further line and
\* turns to the end marker; scanning and sending do not look at the signal.
C12_BoundedSlack ==
    /\ [][ (FetcherStep /\ fpc = "check" /\ Canceled(pageCtx)) =>
              /\ fpc' = "sendNil"
              /\ fmsg' = NilMessage
              /\ lineNo' = lineNo ]_vars
    /\ [][ (FetcherStep /\ lineNo' # lineNo) => (fpc = "scan" /\ lineNo' = lineNo + 1) ]_vars
    /\ []((pageNo >= 1 /\ Canceled(pageCtx) /\ IsTerminal(lastCat)) =>
              /\ lineNo <= cmsg.line + 1
              /\ lineNo = cmsg.line + 1 => (fpc = "send" /\ fmsg.line = lineNo))

\* the signal is set and the fetcher holds the one line it read beyond the record
\* that ended the page
C12_Witness ==
    /\ pc = "sink"
    /\ canceled
    /\ IsTerminal(lastCat)
    /\ fpc = "send"
    /\ fmsg.line = cmsg.line + 1

----------------------------------------------------------------------------
(* C13 *)

\* the classifier of the page takes nothing more from "download"
ClassifierStoppedReading == cpc \in {"cancel", "close", "return", "done"}

\* C13: no fetch goroutine waits in a send on "download" that nobody will take: the
\* fetcher of the page never waits to send a record or the end marker once the
\* classifier has stopped reading, and no fetcher of an earlier page was left
\* behind in a send, so every fetcher gets to close its body.
C13_NoFetcherBlocked ==
    /\ ~(fpc \in {"send", "sendNil"} /\ ClassifierStoppedReading)
    /\ stuck = 0

----------------------------------------------------------------------------
(* C14 *)

FetchErrors == Cardinality({i \in 1..Len(stderr) : IsFetchError(stderr[i])})

\* C14: a page request that fails starts nothing: the fetch goroutine and the
\* classifier of the page before stay where they were, no message is put on a
\* channel, no page is counted, nothing is printed and no counter moves; FetchForDate
\* returns the zero time; the report of the error and the return of searchLogs start
\* nothing either; every failed request is a request without a page, and is
\* reported once.
C14_FailedRequestStartsNothing ==
    /\ [][ (FailedRequest \/ (pc \in {"failed", "return"} /\ pc' # pc)) =>
              /\ UNCHANGED <<fpc, fmsg, lineNo, stuck, lingering>>
              /\ UNCHANGED <<cpc, cmsg, cresults, results, filtered, lastCat>>
              /\ UNCHANGED <<pageNo, pageCtx, pageDate, sinkCount, lastSink, progress>> ]_vars
    /\ [][ FailedRequest => nextDate' = ZeroTime ]_vars
    /\ [](requests - pageNo = FetchErrors + (IF pc = "failed" THEN 1 ELSE 0))

\* the second request of the run failed, after a page that was read
C14_Witness ==
    /\ pc = "main"
    /\ requests = 2
    /\ pageNo = 1
    /\ lineNo >= 1
    /\ nextDate = ZeroTime
    /\ FetchErrors = 1

----------------------------------------------------------------------------
(* C15 *)

\* the step starts a page
PageStart == pageNo' = pageNo + 1

\* the step sets the signal of the context in use
SignalSet == ~canceled /\ canceled'

\* C15 as stated: every page starts with a signal no earlier page had, which is
\* unset; the signal is set only by the classifier, when it has resolved a terminal
\* category.
C15_FreshSignalPerPage ==
    /\ [][ PageStart => (pageCtx' > pageCtx /\ ~canceled') ]_vars
    /\ [][ SignalSet => (cpc = "cancel" /\ IsTerminal(lastCat)) ]_vars

\* C15, amended: the signal belongs to the channel. searchLogs makes one context
\* per call; every page of the channel is started with that context, unset; the
\* first page of a channel has a context no earlier page had, a further page has
\* the context of the page before. The signal is set by the classifier of a page
\* in progress that has resolved a terminal category, or by the deferred cancel()
\* of searchLogs, when it returns after a failed request or is unwound by the panic
\* of the test; it is never unset: an unset signal is that of a new context, made
\* when the next channel is entered.
C15_SignalPerChannel ==
    /\ [][ PageStart =>
              /\ ~canceled /\ ~canceled'
              /\ pageCtx' = ctx /\ ctx' = ctx
              /\ Len(requested) >= 1 => pageCtx' = pageCtx
              /\ Len(requested) = 0 => pageCtx' > pageCtx ]_vars
    /\ [][ SignalSet =>
              \/ cpc = "cancel" /\ IsTerminal(lastCat) /\ Filtering /\ pageCtx = ctx
              \/ pc = "return" /\ pc' = "main" /\ nextDate = ZeroTime
              \/ pc = "unwind" /\ pc' = "panic" ]_vars
    /\ [][ (canceled /\ ~canceled') => (ctx' = ctx + 1 /\ pc = "main" /\ pc' = "loop") ]_vars
    /\ [][ ctx' # ctx => (ctx' = ctx + 1 /\ pc = "main" /\ pc' = "loop" /\ ~canceled') ]_vars

\* the second page of the first channel is in progress under the context of the
\* first page, and the classifier has set its signal
C15_Witness ==
    /\ pc = "sink"
    /\ ctx = 1
    /\ pageCtx = 1
    /\ pageNo = 2
    /\ Len(requested) = 2
    /\ canceled
    /\ IsTerminal(lastCat)

----------------------------------------------------------------------------
(* C16 *)

\* C16: when a page is started, the fetch goroutine of the page before has taken
\* its end marker away (it is not scanning, sending or checking), none of an
\* earlier page is left in a send, and the classifier of the page before has
\* returned.
C16_OnePageAtATime ==
    [][ PageStart =>
            /\ fpc \in {"idle", "close", "done"}
            /\ stuck = 0
            /\ cpc \in {"idle", "done"} ]_vars

----------------------------------------------------------------------------
(* C17 *)

\* the step is one in which main or searchLogs reads ProgressState for a progress
\* event, the error event or the summary
ReadsProgress == pc \in {"main", "loop", "failed"} /\ pc' # pc

\* C17: whenever ProgressState is read for an event, the category totals hold every
\* record the classifiers have counted (one category per counted line), and the
\* total of accepted records holds every line that was printed.
C17_NoLostUpdate ==
    [][ ReadsProgress =>
            /\ SumResults(progress.TotalResults) >= progress.CountLines
            /\ progress.TotalResults[ResultOk] >= sinkCount ]_vars

----------------------------------------------------------------------------
(* C18 *)

\* the counts of the classifier of the page in progress, which are zero until the
\* classifier is started
Counted == IF pc = "start" THEN ZeroResults ELSE cresults

\* the classifier of the page in progress holds a record
Classifying == pc # "start" /\ cpc \in {"classify", "emit"}

\* records of the page in progress the classifier has taken from "download"
Received == SumResults(Counted) + (IF pc # "start" /\ cpc = "classify" THEN 1 ELSE 0)

\* records of the page in progress read from the body and neither counted in a
\* category other than Ok nor printed
InFlight ==
    (lineNo - Received) + (IF Classifying THEN 1 ELSE 0) + (IF pc = "print" THEN 1 ELSE 0)

\* C18: of the page in progress at most three records are in flight, whatever the
\* length of the body: at most one that the fetcher has read and the classifier
\* has not taken, which the fetcher holds in its send; at most one that the
\* classifier holds, to classify it or to hand it to the sink; and at most one
\* that the sink loop has received and not printed yet. The line the sink loop holds
\* lies before the one the classifier holds, which lies before the one the fetcher
\* holds, and the line printed last lies before them all.
C18_Backpressure ==
    /\ InFlight \in 0..3
    /\ lineNo - Received \in {0, 1}
    /\ lineNo - Received = 1 => (fpc = "send" /\ fmsg.line = lineNo)
    /\ Classifying => cmsg.line = Received
    /\ pc = "print" =>
          /\ smsg.page = pageNo
          /\ lastSink[2] < smsg.line
          /\ smsg.line <= Received
          /\ Classifying => smsg.line < cmsg.line
    /\ lastSink[2] <= lineNo - InFlight

\* deep in a body of LongLines lines: the sink loop is about to print line
\* LongLines - 2 while the classifier waits to hand over the next line and the
\* fetcher waits in its send with the last, the lines before them being done with
C18_Witness ==
    /\ args.archive = "long"
    /\ pc = "print"
    /\ smsg.line = LongLines - 2
    /\ cpc = "emit"
    /\ cmsg.line = LongLines - 1
    /\ fpc = "send"
    /\ fmsg.line = LongLines
    /\ lineNo > MaxLines
    /\ InFlight = 3

----------------------------------------------------------------------------
(* C19 *)

\* C19: when searchLogs has left its sink loop and reads results, the goroutine has
\* assigned it: what is read is the array StreamFilter built for the page, and the
\* index expression of the test never panics.
C19_ResultsPublished ==
    /\ pc \in {"accum", "test"} => (results.assigned /\ results.val = cresults /\ cpc = "done")
    /\ pc # "panic"

----------------------------------------------------------------------------
(* C20 *)

\* every goroutine that can take a step eventually takes one
FairSpec ==
    /\ Spec
    /\ WF_vars(NextChannel) /\ WF_vars(NextStep) /\ WF_vars(FetchForDate \/ FetchError)
    /\ WF_vars(StartFilter) /\ WF_vars(ReportError) /\ WF_vars(ReturnSearchLogs)
    /\ WF_vars(SinkClosed) /\ WF_vars(Accumulate) /\ WF_vars(TestResults)
    /\ WF_vars(PanicUnwind) /\ WF_vars(Summary)
    /\ WF_vars(FetchScan) /\ WF_vars(Download) /\ WF_vars(FetchCheck)
    /\ WF_vars(FetchClose) /\ WF_vars(LingerClose)
    /\ WF_vars(Classify) /\ WF_vars(Emit) /\ WF_vars(Println) /\ WF_vars(Cancel)
    /\ WF_vars(CloseFiltered) /\ WF_vars(AssignResults)

\* page n is complete: the end marker of its fetcher was taken, its classifier has
\* closed "filtered" and returned, and searchLogs has left the sink loop and has
\* read the results of the page
PageComplete(n) ==
    /\ pageNo = n
    /\ fpc \in {"close", "done"}
    /\ filtered = "closed"
    /\ cpc = "done"
    /\ pc \in {"loop", "fetch", "failed", "return", "main", "done"}

\* C20: under fair scheduling every page that is started becomes complete, unless
\* the process has ended before in the panic of the unassigned results.
C20_PageCompletes ==
    \A n \in 1..(MaxPages + DeepPages) :
        (pageNo = n /\ InPage) ~> (PageComplete(n) \/ pc = "panic")

====
